---- MODULE Spec2Model ----
(***************************************************************************)
(* Model of financial_advisor: utils/financial_calculators.py,             *)
(* utils/data_processor.py and the FinancialAnalyzer of app.py.            *)
(*                                                                         *)
(* Spec     : one call of FinancialCalculators.debt_snowball_calculator,   *)
(*            stepped statement by statement (copy and sort, the while     *)
(*            test, one iteration of the for loop, the return).            *)
(* FloatSpec: the same call, under weak fairness, on balances that reach   *)
(*            the first whole number whose neighbour is not a float.       *)
(* CalcSpec : one call of a pure function (the closed-form calculators,    *)
(*            the snapshot functions of data_processor.py and app.py) on   *)
(*            inputs drawn from bounded sets.                              *)
(*                                                                         *)
(* Amounts are whole currency units and annual rates are multiples of      *)
(* 1200 percent, so that rate / 100 / 12 and every product the code forms  *)
(* with it are integers.  The debt arithmetic is rounded by Float, which   *)
(* is the identity on every value Spec reaches.                            *)
(***************************************************************************)
EXTENDS Integers, Sequences, FiniteSets, TLC

\* ---------------------------------------------------------------- bounds
MaxBalance == 3
MaxMinPayment == 3
MaxExtra == 1
MaxRateUnits == 1
MaxMonths == 4
\* Significand bits of the model's floats.  Python's float has 53; the model
\* keeps the rounding rule and shortens the significand, so that every
\* value Spec reaches is exact and a value of 2^(MantissaBits + 1) is not.
MantissaBits == 8

\* expected_return / 100 / 12: an annual percentage of 1200 is a monthly
\* rate of exactly 1.
PercentPerMonthlyUnit == 1200

Names == <<"A", "B">>
Methods == {"snowball", "avalanche"}
Balances == 0..MaxBalance
MinPayments == 1..MaxMinPayment
Extras == 0..MaxExtra
DebtRates == {k * PercentPerMonthlyUnit : k \in 0..MaxRateUnits}

\* ----------------------------------------------------------------- state
VARIABLES
    debts,                \* the caller's list of debt records
    extra_payment,        \* argument
    method,               \* argument
    debts_copy,           \* the sorted private copy
    total_interest_paid,
    months_to_payoff,
    payoff_plan,
    monthly_extra,
    pc,                   \* "start", "while", "for", "return"
    idx,                  \* position of the for loop in debts_copy
    balance_at_month_start, \* balances when the while test last passed
    month_log,            \* per position: what the current month's pass did
    fn, args, result, cpc \* the closed-form calculator call (CalcSpec)

debtVars == <<debts, extra_payment, method, debts_copy, total_interest_paid,
              months_to_payoff, payoff_plan, monthly_extra, pc, idx,
              balance_at_month_start, month_log>>
calcVars == <<fn, args, result, cpc>>
vars == <<debts, extra_payment, method, debts_copy, total_interest_paid,
          months_to_payoff, payoff_plan, monthly_extra, pc, idx,
          balance_at_month_start, month_log, fn, args, result, cpc>>

\* ------------------------------------------------- debt_snowball_calculator

Debt(n, b, r, m) ==
    [name |-> n, balance |-> b, interest_rate |-> r, min_payment |-> m]

\* Every list of 1..Len(Names) debts, named by position, unique names.
DebtLists ==
    UNION { { [j \in 1..k |-> Debt(Names[j], b[j], r[j], m[j])] :
                b \in [1..k -> Balances],
                r \in [1..k -> DebtRates],
                m \in [1..k -> MinPayments] } : k \in 1..Len(Names) }

\* A sort that orders avalanche by ascending interest_rate.
KeyLessAscendingRate(x, y, meth) ==
    IF meth = "snowball"
    THEN x.balance < y.balance
    ELSE x.interest_rate < y.interest_rate

\* The sort keys of lines 245-248: x comes strictly before y.
KeyLess(x, y, meth) ==
    IF meth = "snowball"
    THEN x.balance < y.balance
    ELSE x.interest_rate > y.interest_rate

\* list.sort is stable (also with reverse=True): x goes after every element
\* whose key does not come strictly after its own.
RECURSIVE InsertStable(_, _, _)
InsertStable(s, x, meth) ==
    IF s = << >> THEN << x >>
    ELSE IF KeyLess(x, Head(s), meth) THEN << x >> \o s
    ELSE << Head(s) >> \o InsertStable(Tail(s), x, meth)

RECURSIVE SortStable(_, _)
SortStable(s, meth) ==
    IF s = << >> THEN << >>
    ELSE InsertStable(SortStable(SubSeq(s, 1, Len(s) - 1), meth), s[Len(s)], meth)

\* A shallow copy, list(debts): the records of debts_copy are the caller's
\* records, so a write to one of them is a write to the caller's record.
CallerAfterWriteShared(caller, paid) ==
    [j \in DOMAIN caller |->
        IF caller[j].name = paid.name THEN paid ELSE caller[j]]

\* Line 243: [debt.copy() for debt in debts] makes a new dict per debt, so
\* the write of line 272 to a record of debts_copy leaves the caller's
\* records as they are.
CallerAfterWrite(caller, paid) == caller

\* Lines 243-248: the comprehension builds a new list and list.sort orders
\* that list in place; the caller's list keeps its order.
CallerAfterSort(caller, sorted) == caller

\* Line 254: any(debt['balance'] > 0 for debt in debts_copy)
AnyActive(dc) == \E j \in DOMAIN dc : dc[j].balance > 0

\* A skip test that lets a debt at exactly 0 through.
SkippedOnlyNegative(debt) == debt.balance < 0

\* Line 259: if debt['balance'] <= 0: continue
Skipped(debt) == debt.balance <= 0

\* The spacing of the floats around x: the power of two u with
\* |x| < u * 2^MantissaBits.
RECURSIVE Ulp(_, _)
Ulp(x, u) == IF x < u * 2^MantissaBits THEN u ELSE Ulp(x, 2 * u)

\* The float nearest to the whole number x, ties to the even significand:
\* the result of every +, - and * of lines 263-272.
FloatOfNat(x) ==
    LET u == Ulp(x, 1)
        q == x \div u
        r == x % u
    IN IF 2 * r < u THEN q * u
       ELSE IF 2 * r > u THEN (q + 1) * u
       ELSE IF q % 2 = 0 THEN q * u ELSE (q + 1) * u

Float(x) == IF x < 0 THEN 0 - FloatOfNat(0 - x) ELSE FloatOfNat(x)

\* Line 263: debt['balance'] * (debt['interest_rate'] / 100 / 12)
MonthlyInterest(debt) ==
    Float(debt.balance * (debt.interest_rate \div PercentPerMonthlyUnit))

\* Line 267
TotalPayment(debt, extra) == Float(debt.min_payment + extra)

\* The extra payment handed on to the next debt as well.
ExtraKept(extra) == extra

\* Line 268: monthly_extra = 0 once a debt has been paid
ExtraAfterPayment(extra) == 0

Min(a, b) == IF a <= b THEN a ELSE b

\* A principal payment that is not clamped to the balance.
PrincipalPaymentUnclamped(payment, interest, balance) ==
    Float(payment - interest)

\* Line 271
PrincipalPayment(payment, interest, balance) ==
    Min(Float(payment - interest), balance)

\* Line 274, second conjunct: `debt not in [p['debt'] for p in payoff_plan]`
\* compares the dict debt with the name strings of the plan; a dict never
\* equals a str, so the membership test is always False.
DictEqualsStr(debt, nm) == FALSE
DebtInPlan(debt, plan) == \E k \in DOMAIN plan : DictEqualsStr(debt, plan[k].debt)

\* A plan entry stamped with the month before the current one.
PlanAfterOffByOne(plan, debt, month, interest) ==
    IF debt.balance <= 0 /\ ~DebtInPlan(debt, plan)
    THEN Append(plan, [debt |-> debt.name, payoff_month |-> month - 1,
                       total_interest |-> interest])
    ELSE plan

\* A plan that takes the new entry at its head.
PlanAfterPrepend(plan, debt, month, interest) ==
    IF debt.balance <= 0 /\ ~DebtInPlan(debt, plan)
    THEN << [debt |-> debt.name, payoff_month |-> month,
             total_interest |-> interest] >> \o plan
    ELSE plan

\* Lines 274-279
PlanAfter(plan, debt, month, interest) ==
    IF debt.balance <= 0 /\ ~DebtInPlan(debt, plan)
    THEN Append(plan, [debt |-> debt.name, payoff_month |-> month,
                       total_interest |-> interest])
    ELSE plan

NoEntry == [skipped |-> TRUE, total_payment |-> 0, monthly_interest |-> 0,
            principal_payment |-> 0]

CalcIdle ==
    /\ fn = "none"
    /\ args = << >>
    /\ result = << >>
    /\ cpc = "idle"

Init ==
    /\ debts \in DebtLists
    /\ extra_payment \in Extras
    /\ method \in Methods
    /\ debts_copy = << >>
    /\ total_interest_paid = 0
    /\ months_to_payoff = 0
    /\ payoff_plan = << >>
    /\ monthly_extra = 0
    /\ pc = "start"
    /\ idx = 0
    /\ balance_at_month_start = << >>
    /\ month_log = << >>
    /\ CalcIdle

\* Lines 243-252: copy, sort once, initialise the accumulators.
Start ==
    /\ pc = "start"
    /\ debts_copy' = SortStable(debts, method)
    /\ total_interest_paid' = 0
    /\ months_to_payoff' = 0
    /\ payoff_plan' = << >>
    /\ debts' = CallerAfterSort(debts, SortStable(debts, method))
    /\ pc' = "while"
    /\ UNCHANGED <<extra_payment, method, monthly_extra, idx,
                   balance_at_month_start, month_log>>
    /\ UNCHANGED calcVars

\* Lines 254-256: the while test passes and a month begins.  The guard on
\* MaxMonths only bounds the model: the code has no such limit.
WhileEnter ==
    /\ pc = "while"
    /\ AnyActive(debts_copy)
    /\ months_to_payoff < MaxMonths
    /\ months_to_payoff' = months_to_payoff + 1
    /\ monthly_extra' = extra_payment
    /\ idx' = 1
    /\ balance_at_month_start' = [j \in DOMAIN debts_copy |-> debts_copy[j].balance]
    /\ month_log' = [j \in DOMAIN debts_copy |-> NoEntry]
    /\ pc' = "for"
    /\ UNCHANGED <<debts, extra_payment, method, debts_copy,
                   total_interest_paid, payoff_plan>>
    /\ UNCHANGED calcVars

\* Lines 258-260: the for loop reaches a debt with balance <= 0.
ForSkip ==
    /\ pc = "for"
    /\ idx <= Len(debts_copy)
    /\ Skipped(debts_copy[idx])
    /\ idx' = idx + 1
    /\ UNCHANGED <<debts, extra_payment, method, debts_copy,
                   total_interest_paid, months_to_payoff, payoff_plan,
                   monthly_extra, pc, balance_at_month_start, month_log>>
    /\ UNCHANGED calcVars

\* Lines 258-279: the for loop body on a debt with balance > 0.
ForPay ==
    /\ pc = "for"
    /\ idx <= Len(debts_copy)
    /\ ~Skipped(debts_copy[idx])
    /\ LET debt == debts_copy[idx]
           monthly_interest == MonthlyInterest(debt)
           total_payment == TotalPayment(debt, monthly_extra)
           principal_payment ==
               PrincipalPayment(total_payment, monthly_interest, debt.balance)
           paid == [debt EXCEPT !.balance =
                             Float(debt.balance - principal_payment)]
       IN /\ total_interest_paid' =
                Float(total_interest_paid + monthly_interest)
          /\ monthly_extra' = ExtraAfterPayment(monthly_extra)
          /\ debts_copy' = [debts_copy EXCEPT ![idx] = paid]
          /\ debts' = CallerAfterWrite(debts, paid)
          /\ payoff_plan' = PlanAfter(payoff_plan, paid, months_to_payoff,
                                      monthly_interest)
          /\ month_log' = [month_log EXCEPT ![idx] =
                              [skipped |-> FALSE,
                               total_payment |-> total_payment,
                               monthly_interest |-> monthly_interest,
                               principal_payment |-> principal_payment]]
    /\ idx' = idx + 1
    /\ UNCHANGED <<extra_payment, method, months_to_payoff, pc,
                   balance_at_month_start>>
    /\ UNCHANGED calcVars

\* Line 258: the for loop is exhausted; back to the while test.
ForEnd ==
    /\ pc = "for"
    /\ idx > Len(debts_copy)
    /\ pc' = "while"
    /\ UNCHANGED <<debts, extra_payment, method, debts_copy,
                   total_interest_paid, months_to_payoff, payoff_plan,
                   monthly_extra, idx, balance_at_month_start, month_log>>
    /\ UNCHANGED calcVars

\* Lines 254, 281-286: the while test fails and the function returns.
Return ==
    /\ pc = "while"
    /\ ~AnyActive(debts_copy)
    /\ pc' = "return"
    /\ UNCHANGED <<debts, extra_payment, method, debts_copy,
                   total_interest_paid, months_to_payoff, payoff_plan,
                   monthly_extra, idx, balance_at_month_start, month_log>>
    /\ UNCHANGED calcVars

Next == Start \/ WhileEnter \/ ForSkip \/ ForPay \/ ForEnd \/ Return

Spec == Init /\ [][Next]_vars

\* Balances up to the first power of two whose neighbour below is not a
\* float: with 53 bits that is 2^54, here 2^(MantissaBits + 1).
LargeBalance == 2^(MantissaBits + 1)
FloatBalances == {0, 1, LargeBalance}

FloatDebtLists ==
    UNION { { [j \in 1..k |-> Debt(Names[j], b[j], r[j], m[j])] :
                b \in [1..k -> FloatBalances],
                r \in [1..k -> DebtRates],
                m \in [1..k -> MinPayments] } : k \in 1..Len(Names) }

FloatInit ==
    /\ debts \in FloatDebtLists
    /\ extra_payment \in Extras
    /\ method \in Methods
    /\ debts_copy = << >>
    /\ total_interest_paid = 0
    /\ months_to_payoff = 0
    /\ payoff_plan = << >>
    /\ monthly_extra = 0
    /\ pc = "start"
    /\ idx = 0
    /\ balance_at_month_start = << >>
    /\ month_log = << >>
    /\ CalcIdle

\* The call runs on one thread and nothing suspends it: whenever a statement
\* is enabled, it is eventually executed.
FloatSpec == FloatInit /\ [][Next]_vars /\ WF_vars(Next)

\* ------------------------------------------------------------ properties

RECURSIVE SumSeq(_)
SumSeq(s) == IF s = << >> THEN 0 ELSE Head(s) + SumSeq(Tail(s))

SumOver(s, F(_)) == SumSeq([j \in DOMAIN s |-> F(s[j])])

EntryPayment(e) == IF e.skipped THEN 0 ELSE e.total_payment
EntryInterest(e) == IF e.skipped THEN 0 ELSE e.monthly_interest
PlanInterest(p) == p.total_interest
ActiveMinPayment(d) == IF d.balance > 0 THEN d.min_payment ELSE 0
ActiveInterest(d) == IF d.balance > 0 THEN MonthlyInterest(d) ELSE 0

Started == pc # "start"
MonthDone == pc = "while" /\ months_to_payoff >= 1
Processed(j) == (pc = "for" /\ j < idx) \/ MonthDone \/ (pc = "return" /\ months_to_payoff >= 1)
InputOf(nm) == CHOOSE j \in DOMAIN debts : debts[j].name = nm

\* The payments of the input cannot reduce principal: minimum payments of
\* the debts with balance > 0 plus the extra payment do not exceed their
\* total monthly interest.
InputCannotReduce ==
    /\ AnyActive(debts)
    /\ SumOver(debts, ActiveMinPayment) + extra_payment
          <= SumOver(debts, ActiveInterest)

\* The month just simulated paid no more than the interest it accrued.
LastMonthCannotReduce ==
    SumOver(month_log, EntryPayment) <= SumOver(month_log, EntryInterest)

\* C1: when the payments cannot reduce principal (minimum payments plus
\* extra do not exceed the monthly interest of the debts with balance > 0)
\* the call reports an insufficient-payment error instead of stepping
\* months forever: once a month has been simulated in which the payments
\* did not exceed the interest, no further month is stepped.
C1_InsufficientPaymentReported ==
    [][(MonthDone /\ InputCannotReduce /\ LastMonthCannotReduce)
          => pc' # "for"]_vars

\* C2: with every input balance >= 0, every balance of the working copy is
\* >= 0 after every step of every month.
C2_BalanceNeverNegative ==
    (\A j \in DOMAIN debts : debts[j].balance >= 0)
        => \A j \in DOMAIN debts_copy : debts_copy[j].balance >= 0

\* C2 witness: a payment larger than interest plus balance was clamped and
\* left the balance at exactly 0.
C2_Witness ==
    /\ pc = "for"
    /\ \E j \in DOMAIN month_log :
          /\ j < idx
          /\ ~month_log[j].skipped
          /\ month_log[j].total_payment - month_log[j].monthly_interest
                > balance_at_month_start[j]
          /\ debts_copy[j].balance = 0

FirstActiveAtMonthStart(j) ==
    /\ balance_at_month_start[j] > 0
    /\ \A k \in 1..(j - 1) : balance_at_month_start[k] = 0

\* C3: in every simulated month the extra payment goes to exactly one debt,
\* the first in priority order with balance > 0; every other active debt
\* pays only its min_payment, so a debt gets the extra only when every debt
\* before it already has balance 0.
C3_ExtraOnlyToFirstActive ==
    \A j \in DOMAIN month_log :
        Processed(j) =>
            IF balance_at_month_start[j] <= 0
            THEN month_log[j].skipped
            ELSE /\ ~month_log[j].skipped
                 /\ month_log[j].total_payment =
                       debts_copy[j].min_payment +
                       (IF FirstActiveAtMonthStart(j) THEN extra_payment ELSE 0)

\* C3 witness: the second debt in priority order receives a positive extra
\* payment in a month that began with the first debt already at 0, after an
\* earlier month in which the first debt was active.
C3_Witness ==
    /\ MonthDone
    /\ months_to_payoff >= 2
    /\ extra_payment > 0
    /\ Len(debts_copy) = 2
    /\ debts[InputOf(debts_copy[1].name)].balance > 0
    /\ balance_at_month_start[1] = 0
    /\ ~month_log[2].skipped
    /\ month_log[2].total_payment = debts_copy[2].min_payment + extra_payment

\* C4: the processing order is computed once from the input: ascending by
\* initial balance for snowball, descending by interest_rate for avalanche
\* (ties in input order), and it stays that order in every month whatever
\* the balances become.
C4_OrderFixedAtStart ==
    Started =>
        /\ Len(debts_copy) = Len(debts)
        /\ \A j \in DOMAIN debts : \E k \in DOMAIN debts_copy :
              debts_copy[k].name = debts[j].name
        /\ \A j, k \in DOMAIN debts_copy :
              j < k =>
                LET a == debts[InputOf(debts_copy[j].name)]
                    b == debts[InputOf(debts_copy[k].name)]
                    inputOrder == InputOf(debts_copy[j].name) < InputOf(debts_copy[k].name)
                IN IF method = "snowball"
                   THEN a.balance < b.balance \/ (a.balance = b.balance /\ inputOrder)
                   ELSE a.interest_rate > b.interest_rate
                          \/ (a.interest_rate = b.interest_rate /\ inputOrder)

\* C4 witness: a snowball run in which, after a month, the first debt in
\* the processing order owes more than the second, which is still unpaid.
C4_Witness ==
    /\ MonthDone
    /\ method = "snowball"
    /\ Len(debts_copy) = 2
    /\ debts_copy[1].balance > debts_copy[2].balance
    /\ debts_copy[1].balance <= debts[InputOf(debts_copy[1].name)].balance
    /\ debts_copy[2].balance > 0

ReachesZero(j) == debts_copy[j].balance > 0 /\ debts_copy'[j].balance = 0

\* Every step appends to payoff_plan exactly when a balance reaches zero,
\* the entry naming that debt and the current month.
PlanFollowsBalances ==
    /\ debts_copy # << >> =>
          /\ \A j \in DOMAIN debts_copy :
                ReachesZero(j) =>
                    /\ Len(payoff_plan') = Len(payoff_plan) + 1
                    /\ SubSeq(payoff_plan', 1, Len(payoff_plan)) = payoff_plan
                    /\ payoff_plan'[Len(payoff_plan')].debt = debts_copy[j].name
                    /\ payoff_plan'[Len(payoff_plan')].payoff_month = months_to_payoff
          /\ (\A j \in DOMAIN debts_copy : ~ReachesZero(j))
                => payoff_plan' = payoff_plan
    /\ debts_copy = << >> => payoff_plan' = << >>

\* C5 as stated: at return payoff_plan holds exactly one entry for each debt
\* of the input list, its payoff_month the month the balance first reached
\* zero.
C5_OneEntryPerInputDebt ==
    [][/\ PlanFollowsBalances
       /\ pc' = "return" =>
            \A j \in DOMAIN debts :
                Cardinality({k \in DOMAIN payoff_plan' :
                                payoff_plan'[k].debt = debts[j].name}) = 1]_vars

\* C5 amended: at return payoff_plan holds exactly one entry for each input
\* debt whose balance was > 0, and none for a debt whose balance was 0;
\* an entry's payoff_month is the month the balance first reached zero.
C5_OneEntryPerPositiveDebt ==
    [][/\ PlanFollowsBalances
       /\ pc' = "return" =>
            \A j \in DOMAIN debts :
                Cardinality({k \in DOMAIN payoff_plan' :
                                payoff_plan'[k].debt = debts[j].name})
                   = IF debts[j].balance > 0 THEN 1 ELSE 0]_vars

\* C5 witness: a returned run of two debts paid off in different months,
\* both recorded.
C5_Witness ==
    /\ pc = "return"
    /\ Len(payoff_plan) = 2
    /\ payoff_plan[1].payoff_month < payoff_plan[2].payoff_month

\* C6: at return the sum of the 'total_interest' fields of payoff_plan
\* equals total_interest_paid.
C6_PlanInterestSumsToTotal ==
    pc = "return" => SumOver(payoff_plan, PlanInterest) = total_interest_paid

\* C7: a debt at balance 0 is terminal: its turn in a later month leaves
\* every balance, total_interest_paid and the extra payment untouched and
\* records no payment, and no step makes a zero balance nonzero.
C7_ZeroBalanceTerminal ==
    [][/\ (pc = "for" /\ idx <= Len(debts_copy) /\ debts_copy[idx].balance = 0)
            => /\ debts_copy' = debts_copy
               /\ total_interest_paid' = total_interest_paid
               /\ monthly_extra' = monthly_extra
               /\ payoff_plan' = payoff_plan
               /\ month_log'[idx].skipped
       /\ (Started /\ pc' # "start") =>
             \A j \in DOMAIN debts_copy :
                debts_copy[j].balance = 0 => debts_copy'[j].balance = 0]_vars

\* C7 witness: the for loop has passed over a debt that was paid off in an
\* earlier month, while another debt is still being paid.
C7_Witness ==
    /\ pc = "for"
    /\ idx = 2
    /\ months_to_payoff >= 2
    /\ month_log[1].skipped
    /\ debts_copy[1].balance = 0
    /\ debts[InputOf(debts_copy[1].name)].balance > 0
    /\ monthly_extra = extra_payment
    /\ extra_payment > 0

\* C8: no debt's balance is larger after a monthly step than before it.
C8_BalanceNeverGrows ==
    [][Started =>
          \A j \in DOMAIN debts_copy :
              debts_copy'[j].balance <= debts_copy[j].balance]_vars

\* ------------------------------------------------- closed-form calculators

MaxAmount == 8

Amounts == 0..MaxAmount
\* Negative, zero and positive annual rates; each a whole monthly rate.
SipRates == {0 - PercentPerMonthlyUnit, 0, PercentPerMonthlyUnit}
EmiRates == {0, PercentPerMonthlyUnit}
SipYears == {1, 2}
EmiYears == {1}

RECURSIVE Pow(_, _)
Pow(b, n) == IF n = 0 THEN 1 ELSE b * Pow(b, n - 1)

\* A float quotient that need not be whole is kept as the pair num / den.
Ratio(n, d) == [num |-> n, den |-> d]
RatioEquals(q, n, d) == q.num * d = n * q.den

\* An exception leaving the call from the given source line, or a return.
Raised(e, line) == [exception |-> e, line |-> line, value |-> << >>]
Returned(v) == [exception |-> "none", line |-> 0, value |-> v]

\* Lines 64-77.  Python raises ZeroDivisionError on a float division by
\* 0.0, whatever the numerator.
sip_calculator(monthly_investment, years, expected_return) ==
    LET monthly_rate == expected_return \div PercentPerMonthlyUnit
        months == years * 12
    IN IF monthly_rate = 0
       THEN Raised("ZeroDivisionError", 67)
       ELSE LET future_value ==
                    monthly_investment
                      * ((Pow(1 + monthly_rate, months) - 1) \div monthly_rate)
                      * (1 + monthly_rate)
                total_invested == monthly_investment * months
                estimated_returns == future_value - total_invested
            IN IF total_invested = 0
               THEN Raised("ZeroDivisionError", 75)
               ELSE Returned([future_value |-> future_value,
                              total_invested |-> total_invested,
                              estimated_returns |-> estimated_returns,
                              return_multiple |-> Ratio(future_value, total_invested),
                              xirr |-> expected_return])

\* Lines 92-107.
emi_calculator(loan_amount, annual_interest_rate, loan_tenure_years) ==
    LET monthly_interest_rate == annual_interest_rate \div PercentPerMonthlyUnit
        loan_tenure_months == loan_tenure_years * 12
        growth == Pow(1 + monthly_interest_rate, loan_tenure_months)
    IN IF growth - 1 = 0
       THEN Raised("ZeroDivisionError", 95)
       ELSE LET emi == Ratio(loan_amount * monthly_interest_rate * growth, growth - 1)
                total_payment == Ratio(emi.num * loan_tenure_months, emi.den)
                total_interest ==
                    Ratio(total_payment.num - loan_amount * total_payment.den,
                          total_payment.den)
            IN IF loan_amount = 0
               THEN Raised("ZeroDivisionError", 106)
               ELSE Returned([emi |-> emi,
                              total_payment |-> total_payment,
                              total_interest |-> total_interest,
                              interest_percentage |->
                                  Ratio(total_interest.num * 100,
                                        total_interest.den * loan_amount)])

\* ---- exact fractions for the float values that are not whole numbers

Abs(x) == IF x < 0 THEN 0 - x ELSE x

RECURSIVE Gcd(_, _)
Gcd(a, b) == IF b = 0 THEN a ELSE Gcd(b, a % b)

\* num / den in lowest terms with den > 0 (d # 0).
RMake(n, d) ==
    LET g == Gcd(Abs(n), Abs(d))
        sgn == IF d < 0 THEN 0 - 1 ELSE 1
    IN Ratio(sgn * (n \div g), sgn * (d \div g))

RInt(n) == Ratio(n, 1)
RAdd(a, b) == RMake(a.num * b.den + b.num * a.den, a.den * b.den)
RSub(a, b) == RMake(a.num * b.den - b.num * a.den, a.den * b.den)
RScale(a, k) == RMake(a.num * k, a.den)
RDivInt(a, k) == RMake(a.num, a.den * k)
RLess(a, b) == a.num * b.den < b.num * a.den
RLeq(a, b) == a.num * b.den <= b.num * a.den
RMax(a, b) == IF RLess(a, b) THEN b ELSE a
RMin(a, b) == IF RLess(b, a) THEN b ELSE a
RAbs(a) == Ratio(Abs(a.num), a.den)

\* base ** e for whole base # 0 or e >= 0; a negative e gives a fraction.
RPow(base, e) ==
    IF e >= 0 THEN RInt(Pow(base, e)) ELSE RMake(1, Pow(base, 0 - e))

\* ---- compound_interest, lines 26-49

CompoundRates == {0 - PercentPerMonthlyUnit, 0, PercentPerMonthlyUnit}
CompoundYears == {1, 2}
CompoundingFrequencies == {1, 12}

compound_interest(principal, annual_rate, years, monthly_contribution, compounding_frequency) ==
    LET rate_decimal == annual_rate \div 100
        periods == years * compounding_frequency
        periodic_rate == rate_decimal \div compounding_frequency
    IN IF 1 + periodic_rate = 0 /\ periods < 0
       THEN Raised("ZeroDivisionError", 31)
       ELSE IF monthly_contribution > 0 /\ periodic_rate = 0
       THEN Raised("ZeroDivisionError", 36)
       ELSE LET growth == RPow(1 + periodic_rate, periods)
                future_value_principal == RScale(growth, principal)
                future_value_contributions ==
                    IF monthly_contribution > 0
                    THEN RScale(RDivInt(RSub(growth, RInt(1)), periodic_rate),
                                monthly_contribution)
                    ELSE RInt(0)
                total_future_value ==
                    RAdd(future_value_principal, future_value_contributions)
                total_contributions == principal + monthly_contribution * periods
                total_interest == RSub(total_future_value, RInt(total_contributions))
            IN Returned([future_value |-> total_future_value,
                         total_contributions |-> total_contributions,
                         total_interest |-> total_interest,
                         return_multiple |->
                             IF total_contributions > 0
                             THEN RDivInt(total_future_value, total_contributions)
                             ELSE RInt(0)])

CompoundArgs ==
    [principal : Amounts, annual_rate : CompoundRates, years : CompoundYears,
     monthly_contribution : Amounts,
     compounding_frequency : CompoundingFrequencies]

\* ---- FinancialAnalyzer.investment_projection, app.py lines 178-190: the
\* second class statement of app.py rebinds FinancialAnalyzer, so this is
\* the definition in effect.
investment_projection(monthly_investment, years, return_rate) ==
    LET monthly_rate == return_rate \div PercentPerMonthlyUnit
        months == years * 12
    IN IF monthly_rate = 0
       THEN Raised("ZeroDivisionError", 181)
       ELSE LET future_value ==
                    monthly_investment
                      * ((Pow(1 + monthly_rate, months) - 1) \div monthly_rate)
                total_invested == monthly_investment * months
            IN IF total_invested = 0
               THEN Raised("ZeroDivisionError", 189)
               ELSE Returned([future_value |-> future_value,
                              total_invested |-> total_invested,
                              returns |-> future_value - total_invested,
                              return_multiple |-> Ratio(future_value, total_invested)])

\* ---- pmt, lines 218-228 (rate is the periodic rate, pv a fraction)

\* pmt without the rate == 0 branch.
pmtNoZeroRateCase(rate, nper, pv, fv) ==
    LET pvif == Pow(1 + rate, nper)
    IN IF pvif - 1 = 0
       THEN Raised("ZeroDivisionError", 226)
       ELSE Returned(RScale(RDivInt(RScale(RAdd(RInt(fv), RScale(pv, pvif)), rate),
                                    pvif - 1), 0 - 1))

pmt(rate, nper, pv, fv) ==
    IF rate = 0
    THEN IF nper = 0
         THEN Raised("ZeroDivisionError", 223)
         ELSE Returned(RScale(RDivInt(RAdd(RInt(fv), pv), nper), 0 - 1))
    ELSE LET pvif == Pow(1 + rate, nper)
         IN IF pvif - 1 = 0
            THEN Raised("ZeroDivisionError", 226)
            ELSE Returned(RScale(RDivInt(RScale(RAdd(RInt(fv), RScale(pv, pvif)),
                                                rate),
                                         pvif - 1), 0 - 1))

\* ---- goal_planning_calculator, lines 193-215

GoalRates == {0 - PercentPerMonthlyUnit, 0, PercentPerMonthlyUnit}
GoalYears == {1}

goal_planning_calculator(goal_amount, current_savings, timeline_years, expected_return) ==
    LET grown == compound_interest(current_savings, expected_return,
                                   timeline_years, 0, 12)
    IN IF grown.exception # "none" THEN grown
       ELSE LET future_value_current == grown.value.future_value
                additional_needed ==
                    RMax(RInt(0), RSub(RInt(goal_amount), future_value_current))
                payment ==
                    IF RLess(RInt(0), additional_needed)
                    THEN pmt(expected_return \div PercentPerMonthlyUnit,
                             timeline_years * 12, additional_needed, 0)
                    ELSE Returned(RInt(0))
            IN IF payment.exception # "none" THEN payment
               ELSE Returned([goal_amount |-> goal_amount,
                              future_value_current |-> future_value_current,
                              additional_needed |-> additional_needed,
                              monthly_savings_required |-> RAbs(payment.value),
                              is_achievable |-> RLeq(RInt(0), additional_needed)])

GoalArgs ==
    [goal_amount : Amounts, current_savings : Amounts,
     timeline_years : GoalYears, expected_return : GoalRates]

\* ---- retirement_calculator, lines 150-177

LifeExpectancy == 90
CurrentAges == {30, 31}
RetirementAges == {30, 31}
RetirementRates == {0, PercentPerMonthlyUnit}
\* inflation_rate / 100 is whole for these.
InflationRates == {0, 100}

\* A shortfall that is not clamped at 0.
ShortfallUnclamped(required_corpus, retirement_corpus) ==
    RSub(required_corpus, retirement_corpus)

\* Line 167
Shortfall(required_corpus, retirement_corpus) ==
    RMax(RInt(0), RSub(required_corpus, retirement_corpus))

retirement_calculator(current_age, retirement_age, current_savings, monthly_contribution, expected_return, inflation_rate, retirement_expenses) ==
    LET years_to_retirement == retirement_age - current_age
        retirement_years == LifeExpectancy - retirement_age
        grown == compound_interest(current_savings, expected_return,
                                   years_to_retirement, monthly_contribution, 12)
    IN IF grown.exception # "none" THEN grown
       ELSE LET retirement_corpus == grown.value.future_value
                inflated_retirement_expenses ==
                    RScale(RPow(1 + inflation_rate \div 100, years_to_retirement),
                           retirement_expenses)
                annual_retirement_expenses ==
                    RScale(inflated_retirement_expenses, 12)
                required_corpus == RScale(annual_retirement_expenses, 25)
            IN Returned([retirement_corpus |-> retirement_corpus,
                         required_corpus |-> required_corpus,
                         is_sufficient |-> RLeq(required_corpus, retirement_corpus),
                         shortfall |-> Shortfall(required_corpus, retirement_corpus),
                         annual_retirement_expenses |-> annual_retirement_expenses,
                         years_to_retirement |-> years_to_retirement,
                         retirement_years |-> retirement_years])

RetirementArgs ==
    [current_age : CurrentAges, retirement_age : RetirementAges,
     current_savings : Amounts, monthly_contribution : Amounts,
     expected_return : RetirementRates, inflation_rate : InflationRates,
     retirement_expenses : Amounts]

\* ---- the financial snapshot: data_processor.py and app.py

MaxIncome == 4
MaxExpense == 3

Incomes == 0..MaxIncome
ExpenseAmounts == 0..MaxExpense
Categories == {"rent_emi", "loan_repayments", "groceries"}
\* The slider of app.py line 266 runs over 0..50.
Percentages == {0, 10, 40}

\* An expenses dict holds any of the categories.
ExpenseDicts == UNION {[S -> ExpenseAmounts] : S \in SUBSET Categories}

UserData ==
    [monthly_income : Incomes, expenses : ExpenseDicts,
     investment_percentage : Percentages]

\* sum(expenses.values())
RECURSIVE SumValues(_, _)
SumValues(f, S) ==
    IF S = {} THEN 0
    ELSE LET c == CHOOSE x \in S : TRUE
         IN f[c] + SumValues(f, S \ {c})

\* dict.get(key, 0)
Get(d, key) == IF key \in DOMAIN d THEN d[key] ELSE 0

\* DataProcessor.process_user_financial_data, lines 22-43.
process_user_financial_data(user_data) ==
    LET total_expenses == SumValues(user_data.expenses, DOMAIN user_data.expenses)
        monthly_savings == user_data.monthly_income - total_expenses
    IN IF user_data.monthly_income = 0
       THEN Raised("ZeroDivisionError", 27)
       ELSE Returned(
              [monthly_income |-> user_data.monthly_income,
               expenses |-> user_data.expenses,
               investment_percentage |-> user_data.investment_percentage,
               derived_metrics |->
                  [total_expenses |-> total_expenses,
                   monthly_savings |-> monthly_savings,
                   savings_rate |->
                       RMake(monthly_savings * 100, user_data.monthly_income),
                   desired_investment |->
                       RMake(user_data.monthly_income
                               * user_data.investment_percentage, 100)],
               expense_ratios |->
                  [c \in DOMAIN user_data.expenses |->
                      RMake(user_data.expenses[c] * 100, user_data.monthly_income)]])

\* FinancialAnalyzer.calculate_financial_metrics, app.py lines 128-147 (the
\* class statement of line 120 is the one in effect).
calculate_financial_metrics(user_data) ==
    LET monthly_income == user_data.monthly_income
        expenses == user_data.expenses
        total_expenses == SumValues(expenses, DOMAIN expenses)
        monthly_savings == monthly_income - total_expenses
    IN IF monthly_income = 0
       THEN Raised("ZeroDivisionError", 132)
       ELSE LET savings_rate == RMake(monthly_savings * 100, monthly_income)
            IN Returned(
                 [total_expenses |-> total_expenses,
                  monthly_savings |-> monthly_savings,
                  desired_investment |->
                      RMake(monthly_income * user_data.investment_percentage, 100),
                  savings_rate |-> savings_rate,
                  expense_ratios |->
                      [c \in DOMAIN expenses |->
                          RMake(expenses[c] * 100, monthly_income)],
                  health_score |->
                      RMin(RInt(100),
                           RMax(RInt(0), RAdd(RScale(savings_rate, 2), RInt(30))))])

\* DataProcessor._interpret_health_score, lines 184-191.
interpret_health_score(score) ==
    IF RLeq(RInt(80), score) THEN "Excellent - Strong financial health"
    ELSE IF RLeq(RInt(60), score) THEN "Good - Solid financial foundation"
    ELSE IF RLeq(RInt(40), score) THEN "Fair - Room for improvement"
    ELSE "Needs Attention - Significant improvements needed"

\* DataProcessor.generate_financial_health_score, lines 144-179, on a
\* processed record.
generate_financial_health_score(user_data) ==
    LET savings_rate == user_data.derived_metrics.savings_rate
        savings_score == RMin(RInt(25), savings_rate)
        emergency_fund_months == 3
        emergency_score ==
            RMin(RInt(20), RScale(RMake(emergency_fund_months, 6), 20))
    IN IF user_data.monthly_income = 0
       THEN Raised("ZeroDivisionError", 157)
       ELSE LET debt_ratio ==
                    RMake(Get(user_data.expenses, "loan_repayments")
                            + Get(user_data.expenses, "rent_emi"),
                          user_data.monthly_income)
                debt_score ==
                    RMax(RInt(0), RSub(RInt(15), RScale(debt_ratio, 100)))
                investment_score ==
                    RMin(RInt(15), RMake(user_data.investment_percentage * 3, 4))
                high_expense_categories ==
                    Cardinality({c \in DOMAIN user_data.expense_ratios :
                                    RLess(RInt(30), user_data.expense_ratios[c])})
                expense_score ==
                    IF 25 - high_expense_categories * 5 > 0
                    THEN 25 - high_expense_categories * 5 ELSE 0
                total_score ==
                    RAdd(RAdd(RAdd(RAdd(savings_score, emergency_score),
                                   debt_score), investment_score),
                         RInt(expense_score))
            IN Returned(
                 [total_score |-> total_score,
                  component_scores |->
                     [savings_rate |-> savings_score,
                      emergency_fund |-> emergency_score,
                      debt_management |-> debt_score,
                      investment_rate |-> investment_score,
                      expense_management |-> RInt(expense_score)],
                  interpretation |-> interpret_health_score(total_score)])

\* The score of a raw record: processed first, as FinancialAnalyzer does
\* (app.py lines 31 and 41).
health_score_of(user_data) ==
    LET processed == process_user_financial_data(user_data)
    IN IF processed.exception # "none" THEN processed
       ELSE generate_financial_health_score(processed.value)

SnapshotArgs == [user_data : UserData]

SipArgs ==
    [monthly_investment : Amounts, years : SipYears, expected_return : SipRates]
EmiArgs ==
    [loan_amount : Amounts, annual_interest_rate : EmiRates,
     loan_tenure_years : EmiYears]

DebtIdle ==
    /\ debts = << >>
    /\ extra_payment = 0
    /\ method = "snowball"
    /\ debts_copy = << >>
    /\ total_interest_paid = 0
    /\ months_to_payoff = 0
    /\ payoff_plan = << >>
    /\ monthly_extra = 0
    /\ pc = "idle"
    /\ idx = 0
    /\ balance_at_month_start = << >>
    /\ month_log = << >>

CalcInit ==
    /\ \/ fn = "sip_calculator" /\ args \in SipArgs
       \/ fn = "emi_calculator" /\ args \in EmiArgs
       \/ fn = "compound_interest" /\ args \in CompoundArgs
       \/ fn = "investment_projection" /\ args \in SipArgs
       \/ fn = "goal_planning_calculator" /\ args \in GoalArgs
       \/ fn = "retirement_calculator" /\ args \in RetirementArgs
       \/ fn = "process_user_financial_data" /\ args \in SnapshotArgs
       \/ fn = "calculate_financial_metrics" /\ args \in SnapshotArgs
       \/ fn = "generate_financial_health_score" /\ args \in SnapshotArgs
    /\ result = << >>
    /\ cpc = "call"
    /\ DebtIdle

\* The call of fn returns (or raises) r.
Finish(f, r) ==
    /\ cpc = "call"
    /\ fn = f
    /\ result' = r
    /\ cpc' = "returned"
    /\ UNCHANGED <<fn, args>>
    /\ UNCHANGED debtVars

CallSip ==
    /\ cpc = "call"
    /\ fn = "sip_calculator"
    /\ result' = sip_calculator(args.monthly_investment, args.years,
                                args.expected_return)
    /\ cpc' = "returned"
    /\ UNCHANGED <<fn, args>>
    /\ UNCHANGED debtVars

CallEmi ==
    /\ cpc = "call"
    /\ fn = "emi_calculator"
    /\ result' = emi_calculator(args.loan_amount, args.annual_interest_rate,
                                args.loan_tenure_years)
    /\ cpc' = "returned"
    /\ UNCHANGED <<fn, args>>
    /\ UNCHANGED debtVars

CallCompound ==
    /\ fn = "compound_interest"
    /\ Finish("compound_interest",
              compound_interest(args.principal, args.annual_rate, args.years,
                                args.monthly_contribution,
                                args.compounding_frequency))

CallInvestmentProjection ==
    /\ fn = "investment_projection"
    /\ Finish("investment_projection",
              investment_projection(args.monthly_investment, args.years,
                                    args.expected_return))

CallGoal ==
    /\ fn = "goal_planning_calculator"
    /\ Finish("goal_planning_calculator",
              goal_planning_calculator(args.goal_amount, args.current_savings,
                                       args.timeline_years, args.expected_return))

CallRetirement ==
    /\ fn = "retirement_calculator"
    /\ Finish("retirement_calculator",
              retirement_calculator(args.current_age, args.retirement_age,
                                    args.current_savings,
                                    args.monthly_contribution,
                                    args.expected_return, args.inflation_rate,
                                    args.retirement_expenses))

CallProcess ==
    /\ fn = "process_user_financial_data"
    /\ Finish("process_user_financial_data",
              process_user_financial_data(args.user_data))

CallMetrics ==
    /\ fn = "calculate_financial_metrics"
    /\ Finish("calculate_financial_metrics",
              calculate_financial_metrics(args.user_data))

CallHealthScore ==
    /\ fn = "generate_financial_health_score"
    /\ Finish("generate_financial_health_score", health_score_of(args.user_data))

CalcNext ==
    \/ CallSip \/ CallEmi \/ CallCompound \/ CallInvestmentProjection
    \/ CallGoal \/ CallRetirement \/ CallProcess \/ CallMetrics
    \/ CallHealthScore

CalcSpec == CalcInit /\ [][CalcNext]_vars

\* C9: sip_calculator with expected_return = 0 raises no division error and
\* returns future_value = monthly_investment * years * 12, so that
\* estimated_returns = 0.
C9_SipZeroRateLinear ==
    (cpc = "returned" /\ fn = "sip_calculator" /\ args.expected_return = 0)
        => /\ result.exception = "none"
           /\ result.value.future_value
                 = args.monthly_investment * args.years * 12
           /\ result.value.estimated_returns = 0

\* C10: emi_calculator with annual_interest_rate = 0 raises no division
\* error and returns emi = loan_amount / (loan_tenure_years * 12),
\* total_payment = loan_amount and total_interest = 0.
C10_EmiZeroRateLinear ==
    (cpc = "returned" /\ fn = "emi_calculator" /\ args.annual_interest_rate = 0)
        => /\ result.exception = "none"
           /\ RatioEquals(result.value.emi, args.loan_amount,
                          args.loan_tenure_years * 12)
           /\ RatioEquals(result.value.total_payment, args.loan_amount, 1)
           /\ RatioEquals(result.value.total_interest, 0, 1)

CalcReturned(f) == cpc = "returned" /\ fn = f
NoException == result.exception = "none"
\* A ratio reported as undefined (0 / 0) instead of being computed.
Undefined == [num |-> 0, den |-> 0]
ZeroOrUndefined(q) == q \in {RInt(0), Undefined}

\* C11: compound_interest with annual_rate = 0 and monthly_contribution > 0
\* raises no division error and returns future_value = principal +
\* monthly_contribution * years * compounding_frequency, total_interest = 0.
C11_CompoundZeroRateLinear ==
    (CalcReturned("compound_interest") /\ args.annual_rate = 0
        /\ args.monthly_contribution > 0)
        => /\ NoException
           /\ result.value.future_value
                 = RInt(args.principal
                        + args.monthly_contribution * args.years
                            * args.compounding_frequency)
           /\ result.value.total_interest = RInt(0)

\* C12: sip_calculator (and the investment_projection of app.py) called
\* with monthly_investment = 0 returns a record whose return_multiple is 0
\* or undefined; it raises no exception.
C12_ZeroInvestmentGuarded ==
    ((CalcReturned("sip_calculator") \/ CalcReturned("investment_projection"))
        /\ args.monthly_investment = 0)
        => /\ NoException
           /\ ZeroOrUndefined(result.value.return_multiple)

\* C13: goal_planning_calculator with expected_return # 0 and
\* additional_needed > 0 returns the payment P that accumulates to
\* additional_needed as a future value: P * ((1+r)^n - 1) / r =
\* additional_needed, r = expected_return/100/12, n = timeline_years*12.
C13_GoalPaymentReachesFutureValue ==
    (CalcReturned("goal_planning_calculator") /\ args.expected_return # 0
        /\ NoException
        /\ RLess(RInt(0), result.value.additional_needed))
        => LET r == args.expected_return \div PercentPerMonthlyUnit
               n == args.timeline_years * 12
               P == result.value.monthly_savings_required
           IN RDivInt(RScale(P, Pow(1 + r, n) - 1), r)
                 = result.value.additional_needed

\* C14: goal_planning_calculator with expected_return = 0 raises no
\* division error and returns monthly_savings_required =
\* max(0, goal_amount - current_savings) / (timeline_years * 12).
C14_GoalZeroRateLinear ==
    (CalcReturned("goal_planning_calculator") /\ args.expected_return = 0)
        => /\ NoException
           /\ result.value.monthly_savings_required
                 = RMake(IF args.goal_amount - args.current_savings > 0
                         THEN args.goal_amount - args.current_savings ELSE 0,
                         args.timeline_years * 12)

\* C14 witness: a zero-rate goal above the current savings, answered with a
\* positive monthly saving.
C14_Witness ==
    /\ CalcReturned("goal_planning_calculator")
    /\ args.expected_return = 0
    /\ args.goal_amount > args.current_savings
    /\ args.current_savings > 0
    /\ NoException
    /\ RLess(RInt(0), result.value.monthly_savings_required)

\* C15: retirement_calculator called with retirement_age < current_age
\* never returns a projection with years_to_retirement < 0 (it raises an
\* error or clamps the horizon to 0).
C15_NegativeHorizonRejected ==
    (CalcReturned("retirement_calculator")
        /\ args.retirement_age < args.current_age /\ NoException)
        => result.value.years_to_retirement >= 0

\* C16: with monthly_income = 0, process_user_financial_data and
\* calculate_financial_metrics return a record whose savings_rate is zero
\* or undefined instead of raising a division-by-zero error.
C16_ZeroIncomeGuarded ==
    /\ (CalcReturned("process_user_financial_data")
          /\ args.user_data.monthly_income = 0)
          => /\ NoException
             /\ ZeroOrUndefined(result.value.derived_metrics.savings_rate)
    /\ (CalcReturned("calculate_financial_metrics")
          /\ args.user_data.monthly_income = 0)
          => /\ NoException
             /\ ZeroOrUndefined(result.value.savings_rate)

\* C17: for every monthly_investment, years and nonzero rate,
\* investment_projection returns the same future_value as sip_calculator,
\* namely m * ((1+r)^n - 1) / r * (1+r).
C17_OneAnnuityConvention ==
    (CalcReturned("investment_projection") /\ args.expected_return # 0)
        => LET sip == sip_calculator(args.monthly_investment, args.years,
                                     args.expected_return)
               r == args.expected_return \div PercentPerMonthlyUnit
               n == args.years * 12
           IN /\ result.exception = sip.exception
              /\ NoException =>
                    /\ result.value.future_value = sip.value.future_value
                    /\ result.value.future_value
                          = args.monthly_investment
                              * ((Pow(1 + r, n) - 1) \div r) * (1 + r)

\* C18: for all monthly_investment >= 0, years > 0 and rate (negative, zero
\* or positive), sip_calculator's future_value is non-decreasing in rate
\* with years fixed and non-decreasing in years with rate fixed.
C18_SipMonotone ==
    CalcReturned("sip_calculator")
        => /\ NoException
           /\ \A rate2 \in SipRates :
                 rate2 >= args.expected_return =>
                    LET other == sip_calculator(args.monthly_investment,
                                                args.years, rate2)
                    IN /\ other.exception = "none"
                       /\ result.value.future_value <= other.value.future_value
           /\ \A years2 \in SipYears :
                 years2 >= args.years =>
                    LET other == sip_calculator(args.monthly_investment,
                                                years2, args.expected_return)
                    IN /\ other.exception = "none"
                       /\ result.value.future_value <= other.value.future_value

\* C19: generate_financial_health_score returns a total_score between 0 and
\* 100 inclusive for every processed record with positive income, also when
\* the expenses exceed the income.
C19_HealthScoreInRange ==
    (CalcReturned("generate_financial_health_score")
        /\ args.user_data.monthly_income > 0)
        => /\ NoException
           /\ RLeq(RInt(0), result.value.total_score)
           /\ RLeq(result.value.total_score, RInt(100))

\* C20: whenever retirement_calculator returns, shortfall >= 0 and
\* is_sufficient holds exactly when shortfall = 0, where required_corpus =
\* 25 * 12 * (retirement_expenses inflated over years_to_retirement).
C20_ShortfallMatchesSufficiency ==
    (CalcReturned("retirement_calculator") /\ NoException)
        => /\ RLeq(RInt(0), result.value.shortfall)
           /\ result.value.is_sufficient <=> (result.value.shortfall = RInt(0))
           /\ result.value.required_corpus
                 = RScale(RPow(1 + args.inflation_rate \div 100,
                               args.retirement_age - args.current_age),
                          25 * 12 * args.retirement_expenses)

\* C20 witness: a returned projection over a positive horizon whose corpus
\* strictly exceeds a positive required corpus.
C20_Witness ==
    /\ CalcReturned("retirement_calculator")
    /\ NoException
    /\ args.retirement_age > args.current_age
    /\ RLess(RInt(0), result.value.required_corpus)
    /\ RLess(result.value.required_corpus, result.value.retirement_corpus)
    /\ result.value.is_sufficient

\* ---- debt_snowball_calculator: termination, frame and plan order

\* Every input debt's min_payment exceeds its initial monthly interest.
PaymentsCoverInterest ==
    \A j \in DOMAIN debts : debts[j].min_payment > MonthlyInterest(debts[j])

\* At the end of a month every debt that was active at its start is lower.
ActiveDebtsFell ==
    MonthDone =>
        \A j \in DOMAIN debts_copy :
            balance_at_month_start[j] > 0
                => debts_copy[j].balance < balance_at_month_start[j]

AllPaidOff == \A j \in DOMAIN debts_copy : debts_copy[j].balance = 0

\* C21: if every input debt has balance >= 0 and a min_payment strictly
\* above its initial monthly interest, then for every extra_payment >= 0 and
\* either method the call terminates, each active debt's balance strictly
\* decreases every month, and at return every balance is 0.
C21_CoveredDebtsArePaidOff ==
    /\ [](PaymentsCoverInterest => ActiveDebtsFell)
    /\ []((PaymentsCoverInterest /\ pc = "return") => AllPaidOff)
    /\ PaymentsCoverInterest ~> (pc = "return")

DashboardMetricKeys ==
    {"monthly_income", "total_expenses", "monthly_savings", "savings_rate",
     "health_score"}

\* C23: after the dashboard form is submitted (monthly_income > 0), every
\* key show_dashboard reads from the metrics record is present in the
\* record calculate_financial_metrics returns, so no read fails on a
\* missing key.
C23_DashboardKeysPresent ==
    (CalcReturned("calculate_financial_metrics")
        /\ args.user_data.monthly_income > 0)
        => /\ NoException
           /\ DashboardMetricKeys \subseteq DOMAIN result.value

\* ---- debt_snowball_calculator: the order of the plan

PlanOrdered ==
    \A j, k \in DOMAIN payoff_plan :
        j <= k => payoff_plan[j].payoff_month <= payoff_plan[k].payoff_month

LargestPayoffMonth ==
    IF payoff_plan = << >> THEN 0
    ELSE CHOOSE m \in {payoff_plan[j].payoff_month : j \in DOMAIN payoff_plan} :
             \A j \in DOMAIN payoff_plan : payoff_plan[j].payoff_month <= m

\* C24: when debt_snowball_calculator returns, the payoff_plan entries are
\* in non-decreasing order of payoff_month and total_months equals the
\* largest payoff_month of the plan; the plan is empty and total_months is 0
\* when no input debt has a balance > 0.
C24_PlanOrderedAndTotalIsLast ==
    pc = "return" =>
        /\ PlanOrdered
        /\ months_to_payoff = LargestPayoffMonth
        /\ ~AnyActive(debts) => (payoff_plan = << >> /\ months_to_payoff = 0)

\* C24 witness: the call returns a plan of two debts paid off in different
\* months.
C24_Witness ==
    /\ pc = "return"
    /\ Len(payoff_plan) = 2
    /\ payoff_plan[1].payoff_month < payoff_plan[2].payoff_month
    /\ months_to_payoff = payoff_plan[2].payoff_month

====
